---- MODULE Spec2Model ----
(***************************************************************************)
(* Model of PROYECTO.py ("Sistema de gestion escolar"): the Alumno record  *)
(* (notas, promedio, aprobado) and the Escuela roster manager              *)
(* (registrar_alumno, eliminar_alumno, obtener_alumno, asignar_nota,       *)
(* guardar_json, cargar_json, exportar_csv).                               *)
(*                                                                         *)
(* Representation.                                                         *)
(*  - A Python dict keeps insertion order.  Escuela.alumnos is a sequence  *)
(*    of Alumno records in insertion order, at most one per dni.           *)
(*  - Alumno.notas is a function from course name to grade; its iteration  *)
(*    order only decides the order of lines inside a written file.         *)
(*  - Numbers are integers: a grade n stands for the float n.0, an age n   *)
(*    for the int n.  promedio() is the exact quotient, kept as a          *)
(*    fraction [num, den].                                                 *)
(*  - A call's result is the string "True", "False" or "None", or the      *)
(*    name of the exception that left the call.                            *)
(*  - Course names are written without accents.                           *)
(***************************************************************************)
EXTENDS Integers, Sequences, FiniteSets, TLC

VARIABLES
    alumnos,          \* Escuela.alumnos: dict dni -> Alumno, in insertion order
    dni_registrados,  \* Escuela._dni_registrados: set of dni
    disco,            \* content of the JSON file at the path used by guardar/cargar
    otra,             \* a second Escuela (the fresh one of a round trip)
    llamada           \* the last call: its operation, arguments, result and output

vars == <<alumnos, dni_registrados, disco, otra, llamada>>

----------------------------------------------------------------------------
(* Bounds of the model *)

\* number of distinct dni the callers use
MaxAlumnos == 2
\* number of entries in a hand-written JSON file
MaxItems == 2

DniPool == <<"1", "2", "3", "4">>
DNIS == {DniPool[i] : i \in 1..MaxAlumnos}
\* (nombre, edad) pairs the callers register
PERSONAS == {<<"Ana", 20>>, <<"Luis", 30>>}
\* grades the callers assign (within 0..20)
NOTAS == {10, 12}

----------------------------------------------------------------------------
(* Module constants *)

CURSOS_DISPONIBLES == <<"Matematica", "Lenguaje", "Ciencia">>

Catalogo == {CURSOS_DISPONIBLES[i] : i \in DOMAIN CURSOS_DISPONIBLES}

----------------------------------------------------------------------------
(* Python dict, insertion ordered, keyed by the record's dni *)

DictVacio == [c \in {} |-> 0]

Claves(d) == {d[i].dni : i \in DOMAIN d}

\* d[k] = v
DictSet(d, v) ==
    IF v.dni \in Claves(d)
    THEN [i \in DOMAIN d |-> IF d[i].dni = v.dni THEN v ELSE d[i]]
    ELSE Append(d, v)

\* d.pop(k, None)
DictPop(d, k) == SelectSeq(d, LAMBDA a : a.dni # k)

\* d.get(k): the sequence of the value found, empty for None
DictGet(d, k) == SelectSeq(d, LAMBDA a : a.dni = k)

\* d.clear()
DictClear(d) == << >>

----------------------------------------------------------------------------
(* Alumno *)

Alumno(nombre, edad, dni) ==
    [dni |-> dni, nombre |-> nombre, edad |-> edad, notas |-> DictVacio]

\* self.notas[curso] = nota
set_nota(notas, curso, nota) ==
    [c \in DOMAIN notas \cup {curso} |-> IF c = curso THEN nota ELSE notas[c]]

RECURSIVE SumaValores(_, _)
\* sum(self.notas.values()), over the keys in ks
SumaValores(notas, ks) ==
    IF ks = {} THEN 0
    ELSE LET k == CHOOSE x \in ks : TRUE
         IN  notas[k] + SumaValores(notas, ks \ {k})

\* the fraction num/den
promedio(notas) ==
    IF DOMAIN notas = {}
    THEN [num |-> 0, den |-> 1]
    ELSE [num |-> SumaValores(notas, DOMAIN notas),
          den |-> Cardinality(DOMAIN notas)]

\* promedio() > 11.0
aprobado_estricto(notas) == promedio(notas).num > 11 * promedio(notas).den

\* promedio() >= 11.0
aprobado(notas) == promedio(notas).num >= 11 * promedio(notas).den

----------------------------------------------------------------------------
(* Escuela: roster operations *)

Llamada(op, dni, curso, nota, ret) ==
    [op |-> op, dni |-> dni, curso |-> curso, nota |-> nota, ret |-> ret,
     salida |-> << >>]

EscuelaVacia == [alumnos |-> << >>, dni_registrados |-> {}]

obtener_alumno(dni) == DictGet(alumnos, dni)

\* registrar_alumno without its membership test
registrar_alumno_sin_guarda(nombre, edad, dni) ==
    /\ alumnos' = DictSet(alumnos, Alumno(nombre, edad, dni))
    /\ dni_registrados' = dni_registrados \cup {dni}
    /\ llamada' = Llamada("registrar", dni, "", 0, "True")
    /\ UNCHANGED <<disco, otra>>

registrar_alumno(nombre, edad, dni) ==
    /\ IF dni \in dni_registrados
       THEN /\ llamada' = Llamada("registrar", dni, "", 0, "False")
            /\ UNCHANGED <<alumnos, dni_registrados>>
       ELSE /\ alumnos' = DictSet(alumnos, Alumno(nombre, edad, dni))
            /\ dni_registrados' = dni_registrados \cup {dni}
            /\ llamada' = Llamada("registrar", dni, "", 0, "True")
    /\ UNCHANGED <<disco, otra>>

\* eliminar_alumno without self.alumnos.pop(dni, None)
eliminar_alumno_sin_pop(dni) ==
    /\ IF dni \notin dni_registrados
       THEN /\ llamada' = Llamada("eliminar", dni, "", 0, "False")
            /\ UNCHANGED <<alumnos, dni_registrados>>
       ELSE /\ dni_registrados' = dni_registrados \ {dni}
            /\ alumnos' = alumnos
            /\ llamada' = Llamada("eliminar", dni, "", 0, "True")
    /\ UNCHANGED <<disco, otra>>

\* eliminar_alumno without self._dni_registrados.remove(dni)
eliminar_alumno_sin_remove(dni) ==
    /\ IF dni \notin dni_registrados
       THEN /\ llamada' = Llamada("eliminar", dni, "", 0, "False")
            /\ UNCHANGED <<alumnos, dni_registrados>>
       ELSE /\ dni_registrados' = dni_registrados
            /\ alumnos' = DictPop(alumnos, dni)
            /\ llamada' = Llamada("eliminar", dni, "", 0, "True")
    /\ UNCHANGED <<disco, otra>>

eliminar_alumno(dni) ==
    /\ IF dni \notin dni_registrados
       THEN /\ llamada' = Llamada("eliminar", dni, "", 0, "False")
            /\ UNCHANGED <<alumnos, dni_registrados>>
       ELSE /\ dni_registrados' = dni_registrados \ {dni}
            /\ alumnos' = DictPop(alumnos, dni)
            /\ llamada' = Llamada("eliminar", dni, "", 0, "True")
    /\ UNCHANGED <<disco, otra>>

\* asignar_nota without its catalog test
asignar_nota_sin_catalogo(dni, curso, nota) ==
    /\ LET alumno == obtener_alumno(dni)
       IN  IF alumno = << >>
           THEN /\ llamada' = Llamada("asignar", dni, curso, nota, "False")
                /\ UNCHANGED alumnos
           ELSE /\ alumnos' = DictSet(alumnos,
                       [alumno[1] EXCEPT !.notas = set_nota(@, curso, nota)])
                /\ llamada' = Llamada("asignar", dni, curso, nota, "True")
    /\ UNCHANGED <<dni_registrados, disco, otra>>

asignar_nota(dni, curso, nota) ==
    /\ LET alumno == obtener_alumno(dni)
       IN  IF alumno = << >>
           THEN /\ llamada' = Llamada("asignar", dni, curso, nota, "False")
                /\ UNCHANGED alumnos
           ELSE IF curso \notin Catalogo
           THEN /\ llamada' = Llamada("asignar", dni, curso, nota, "False")
                /\ UNCHANGED alumnos
           ELSE /\ alumnos' = DictSet(alumnos,
                       [alumno[1] EXCEPT !.notas = set_nota(@, curso, nota)])
                /\ llamada' = Llamada("asignar", dni, curso, nota, "True")
    /\ UNCHANGED <<dni_registrados, disco, otra>>

----------------------------------------------------------------------------
(* JSON values and the Python conversions applied to them *)

\* a JSON value: t is "int", "float", "str" or "null"
JInt(n) == [t |-> "int", n |-> n, s |-> ""]
JFloat(n) == [t |-> "float", n |-> n, s |-> ""]
JStr(s) == [t |-> "str", n |-> 0, s |-> s]
JNull == [t |-> "null", n |-> 0, s |-> ""]

\* the strings that int() and float() parse, with their value
Literales == ("7" :> 7) @@ ("20" :> 20)

\* int(v): the value, or the exception raised
py_int(v) ==
    CASE v.t \in {"int", "float"} -> [err |-> "ok", n |-> v.n]
      [] v.t = "str" -> IF v.s \in DOMAIN Literales
                        THEN [err |-> "ok", n |-> Literales[v.s]]
                        ELSE [err |-> "ValueError", n |-> 0]
      [] OTHER -> [err |-> "TypeError", n |-> 0]

\* float(v): the value, or the exception raised
py_float(v) ==
    CASE v.t \in {"int", "float"} -> [err |-> "ok", n |-> v.n]
      [] v.t = "str" -> IF v.s \in DOMAIN Literales
                        THEN [err |-> "ok", n |-> Literales[v.s]]
                        ELSE [err |-> "ValueError", n |-> 0]
      [] OTHER -> [err |-> "TypeError", n |-> 0]

Campos == {"nombre", "edad", "dni", "notas"}

\* one entry of the file: campos are the keys present in the JSON object
Item(campos, nombre, edad, dni, notas) ==
    [campos |-> campos, nombre |-> nombre, edad |-> edad, dni |-> dni,
     notas |-> notas]

\* a file: "ausente" (no such path), "bytes" (not UTF-8), "texto" (text that
\* is not JSON), "escalar" (a JSON number) or "lista" (a JSON array of objects)
Archivo(tipo, items) == [tipo |-> tipo, items |-> items]

----------------------------------------------------------------------------
(* Escuela: persistence *)

\* the list json.dump writes
Volcado(al) ==
    [i \in DOMAIN al |->
        Item(Campos, al[i].nombre, JInt(al[i].edad), al[i].dni,
             [c \in DOMAIN al[i].notas |-> JFloat(al[i].notas[c])])]

guardar_json ==
    /\ disco' = Archivo("lista", Volcado(alumnos))
    /\ llamada' = Llamada("guardar", "", "", 0, "None")
    /\ UNCHANGED <<alumnos, dni_registrados, otra>>

\* the exception raised by Alumno(item["nombre"], int(item["edad"]), item["dni"])
ErrorDeItem(item) ==
    IF "nombre" \notin item.campos THEN "KeyError"
    ELSE IF "edad" \notin item.campos THEN "KeyError"
    ELSE IF py_int(item.edad).err # "ok" THEN py_int(item.edad).err
    ELSE IF "dni" \notin item.campos THEN "KeyError"
    ELSE "ok"

\* notas_limpias: the grades that float() converts
NotasLimpias(item) ==
    LET crudas == IF "notas" \in item.campos THEN item.notas ELSE DictVacio
        buenas == {c \in DOMAIN crudas : py_float(crudas[c]).err = "ok"}
    IN  [c \in buenas |-> py_float(crudas[c]).n]

\* the reconstruction without a.notas = notas_limpias
AlumnoDeItemSinNotas(item) ==
    Alumno(item.nombre, py_int(item.edad).n, item.dni)

AlumnoDeItem(item) ==
    [Alumno(item.nombre, py_int(item.edad).n, item.dni)
        EXCEPT !.notas = NotasLimpias(item)]

RECURSIVE Reconstruir(_, _, _)
\* the loop over data, from entry i on, with the roster esc built so far
Reconstruir(items, i, esc) ==
    IF i > Len(items) THEN [esc |-> esc, ret |-> "None"]
    ELSE IF ErrorDeItem(items[i]) # "ok"
    THEN [esc |-> esc, ret |-> ErrorDeItem(items[i])]
    ELSE LET a == AlumnoDeItem(items[i])
         IN  Reconstruir(items, i + 1,
                 [alumnos |-> DictSet(esc.alumnos, a),
                  dni_registrados |-> esc.dni_registrados \cup {a.dni}])

\* cargar_json on the Escuela esc with the file f: the Escuela after the
\* call and the call's result
Cargar(esc, f) ==
    CASE f.tipo = "ausente" -> [esc |-> esc, ret |-> "None"]
      [] f.tipo = "bytes" -> [esc |-> esc, ret |-> "UnicodeDecodeError"]
      [] f.tipo = "texto" -> [esc |-> esc, ret |-> "None"]
      [] f.tipo = "escalar" -> [esc |-> EscuelaVacia, ret |-> "TypeError"]
      [] OTHER -> Reconstruir(f.items, 1,
                      [alumnos |-> DictClear(esc.alumnos),
                       dni_registrados |-> {}])

cargar_json ==
    /\ LET r == Cargar([alumnos |-> alumnos,
                        dni_registrados |-> dni_registrados], disco)
       IN  /\ alumnos' = r.esc.alumnos
           /\ dni_registrados' = r.esc.dni_registrados
           /\ llamada' = Llamada("cargar", "", "", 0, r.ret)
    /\ UNCHANGED <<disco, otra>>

\* f"{x:.2f}" of the fraction p
Formato2(p) ==
    LET cent == (200 * p.num + p.den) \div (2 * p.den)
    IN  ToString(cent \div 100) \o "." \o
        (IF cent % 100 < 10 THEN "0" ELSE "") \o ToString(cent % 100)

Cabecera == <<"DNI", "Nombre", "Edad", "Curso", "Nota", "Promedio">>

RECURSIVE Exportar(_, _, _)
\* the loop over alumnos.values(), from student i on, with the rows written
Exportar(al, i, filas) ==
    IF i > Len(al) THEN [filas |-> filas, ret |-> "None"]
    ELSE IF DOMAIN al[i].notas # {}
    \* writer.writerow(a.dni, a.nombre, a.edad, curso, nota, prom): six
    \* arguments to a method that takes one
    THEN [filas |-> filas, ret |-> "TypeError"]
    ELSE Exportar(al, i + 1,
             Append(filas, <<al[i].dni, al[i].nombre, ToString(al[i].edad),
                             "", "", Formato2(promedio(al[i].notas))>>))

exportar_csv ==
    /\ LET r == Exportar(alumnos, 1, <<Cabecera>>)
       IN  llamada' = [Llamada("exportar", "", "", 0, r.ret)
                          EXCEPT !.salida = r.filas]
    /\ UNCHANGED <<alumnos, dni_registrados, disco, otra>>

----------------------------------------------------------------------------
(* Initial state: Escuela() and no file *)

Ausente == [tipo |-> "ausente", items |-> << >>]

Init ==
    /\ alumnos = << >>
    /\ dni_registrados = {}
    /\ disco = Ausente
    /\ otra = EscuelaVacia
    /\ llamada = Llamada("init", "", "", 0, "None")

----------------------------------------------------------------------------
(* Callers and the environment *)

Registrar(P) == \E p \in P, d \in DNIS : registrar_alumno(p[1], p[2], d)

Eliminar == \E d \in DNIS : eliminar_alumno(d)

AsignarNota(C, N) == \E d \in DNIS, c \in C, n \in N : asignar_nota(d, c, n)

GuardarJson == guardar_json

CargarJson == cargar_json

ExportarCsv == exportar_csv

\* entries of a file written by hand: one without grades, one with grades
\* of every kind, one without a name
ItemsAjenos ==
    { Item({"nombre", "edad", "dni"}, "Luis", JInt(30), "1", DictVacio),
      Item(Campos, "Leo", JStr("20"), "2",
           ("Ciencia" :> JFloat(12)) @@ ("Historia" :> JStr("7"))
               @@ ("Lenguaje" :> JNull)),
      Item({"edad", "dni", "notas"}, "", JInt(30), "2", DictVacio) }

\* entries with the other defects: no age, no id, an age that is no number
ItemsDefectuosos ==
    { Item({"nombre", "dni", "notas"}, "Noa", JNull, "2", DictVacio),
      Item({"nombre", "edad", "notas"}, "Noa", JInt(30), "", DictVacio),
      Item(Campos, "Noa", JStr("x"), "2", DictVacio),
      Item(Campos, "Noa", JNull, "2", DictVacio) }

RECURSIVE Listas(_, _)
\* the sequences of at most n members of S
Listas(S, n) ==
    IF n = 0 THEN {<< >>}
    ELSE LET cortas == Listas(S, n - 1)
         IN  cortas \cup {Append(l, x) : l \in cortas, x \in S}

\* the files whose entries, if any, are among S
Contenidos(S) ==
    {Ausente, Archivo("bytes", << >>), Archivo("texto", << >>),
     Archivo("escalar", << >>)}
    \cup {Archivo("lista", l) : l \in Listas(S, MaxItems)}

\* the files of the full model, and those with every defect of an entry
ContenidosAjenos == Contenidos(ItemsAjenos)

ContenidosDefectuosos == Contenidos(ItemsAjenos \cup ItemsDefectuosos)

\* someone else writes, replaces or deletes the file
EditarArchivo(F) ==
    /\ \E f \in F : disco' = f
    /\ llamada' = Llamada("editar", "", "", 0, "None")
    /\ UNCHANGED <<alumnos, dni_registrados, otra>>

\* otra = Escuela(); otra.cargar_json(path)
CargarEnOtra ==
    /\ LET r == Cargar(EscuelaVacia, disco)
       IN  /\ otra' = r.esc
           /\ llamada' = Llamada("cargar_otra", "", "", 0, r.ret)
    /\ UNCHANGED <<alumnos, dni_registrados, disco>>

----------------------------------------------------------------------------
(* Specifications *)

\* every operation of Escuela, in any order, and a file anyone may edit
Next ==
    \/ Registrar({<<"Ana", 20>>})
    \/ Eliminar
    \/ AsignarNota({"Matematica", "Historia"}, {12})
    \/ GuardarJson
    \/ CargarJson
    \/ ExportarCsv
    \/ EditarArchivo(ContenidosAjenos)

Spec == Init /\ [][Next]_vars

\* the in-memory operations, with the callers' full choice of arguments
NextCrud ==
    \/ Registrar(PERSONAS)
    \/ Eliminar
    \/ AsignarNota({"Matematica", "Historia"}, NOTAS)
    \/ AsignarNota({"Lenguaje"}, {12})

SpecCrud == Init /\ [][NextCrud]_vars

\* a roster loaded from files with every kind of content
NextCarga ==
    \/ Registrar({<<"Ana", 20>>})
    \/ CargarJson
    \/ EditarArchivo(ContenidosDefectuosos)

SpecCarga == Init /\ [][NextCarga]_vars

\* course names a caller may pass: the catalog and one name outside it
CursosPedidos == Catalogo \cup {"Historia"}

\* grades around the pass mark
NotasDelUmbral == NOTAS \cup {11}

\* one student graded in every course
NextNotas ==
    \/ \E p \in PERSONAS : registrar_alumno(p[1], p[2], DniPool[1])
    \/ \E c \in CursosPedidos, n \in NotasDelUmbral :
           asignar_nota(DniPool[1], c, n)

SpecNotas == Init /\ [][NextNotas]_vars

\* a roster is built, saved, and loaded into a fresh Escuela
NextIdaVuelta ==
    \/ /\ llamada.op \notin {"guardar", "cargar_otra"}
       /\ \/ Registrar(PERSONAS)
          \/ Eliminar
          \/ AsignarNota(Catalogo, {12})
          \/ GuardarJson
    \/ /\ llamada.op = "guardar"
       /\ CargarEnOtra

SpecIdaVuelta == Init /\ [][NextIdaVuelta]_vars

----------------------------------------------------------------------------
(* Properties *)

Valores(d) == {d[i] : i \in DOMAIN d}

\* the three course names of the catalog, as the specification lists them
TresCursos == {"Matematica", "Lenguaje", "Ciencia"}

\* C1: in every reachable state, whatever the calls made and however they
\* ended, the set of registered identifiers equals the key set of the
\* student mapping.
C1_ClavesIguales == dni_registrados = Claves(alumnos)

\* a load that ended in an exception and left students behind
C1_Testigo ==
    /\ llamada.op = "cargar"
    /\ llamada.ret = "KeyError"
    /\ alumnos # << >>

\* C2: registrar_alumno returns True and adds exactly one entry, the
\* student of that id, when the id is not registered; when it is registered
\* the call returns False and the roster is not mutated: same size, and the
\* registered student keeps its name, age and grades.
C2_Registrar ==
    [][llamada'.op = "registrar" =>
        LET d == llamada'.dni
        IN  IF d \in dni_registrados
            THEN /\ llamada'.ret = "False"
                 /\ Len(alumnos') = Len(alumnos)
                 /\ alumnos' = alumnos
                 /\ dni_registrados' = dni_registrados
            ELSE /\ llamada'.ret = "True"
                 /\ Len(alumnos') = Len(alumnos) + 1
                 /\ Claves(alumnos') = Claves(alumnos) \cup {d}
                 /\ dni_registrados' = dni_registrados \cup {d}
                 /\ Valores(alumnos) \subseteq Valores(alumnos')]_vars

\* a registration refused for an id whose student has a grade
C2_Testigo ==
    /\ llamada.op = "registrar"
    /\ llamada.ret = "False"
    /\ \E a \in Valores(alumnos) :
           a.dni = llamada.dni /\ DOMAIN a.notas # {}

\* C3: eliminar_alumno on an unknown id returns False and leaves the roster
\* unchanged; on a registered id it returns True, the roster is one smaller,
\* every other student is untouched, and a registrar_alumno call with that
\* id right afterwards returns True.
C3_Eliminar ==
    [][/\ llamada'.op = "eliminar" =>
            LET d == llamada'.dni
            IN  IF d \notin dni_registrados
                THEN /\ llamada'.ret = "False"
                     /\ alumnos' = alumnos
                     /\ dni_registrados' = dni_registrados
                ELSE /\ llamada'.ret = "True"
                     /\ Len(alumnos') = Len(alumnos) - 1
                     /\ d \notin Claves(alumnos')
                     /\ \A a \in Valores(alumnos) :
                            a.dni # d => a \in Valores(alumnos')
       /\ ( /\ llamada.op = "eliminar"
            /\ llamada.ret = "True"
            /\ llamada'.op = "registrar"
            /\ llamada'.dni = llamada.dni ) => llamada'.ret = "True"]_vars

\* a registered student was removed and another one remains
C3_Testigo ==
    /\ llamada.op = "eliminar"
    /\ llamada.ret = "True"
    /\ alumnos # << >>

\* C4: asignar_nota returns False exactly when the id is not registered or
\* the course is not one of the three catalog names, and then no grade
\* mapping changes; otherwise it returns True and sets that student's grade
\* for that course, changing no other course and no other student.
C4_AsignarNota ==
    [][llamada'.op = "asignar" =>
        LET d == llamada'.dni
            c == llamada'.curso
            falla == d \notin dni_registrados \/ c \notin TresCursos
        IN  /\ llamada'.ret \in {"True", "False"}
            /\ llamada'.ret = "False" <=> falla
            /\ falla => alumnos' = alumnos
            /\ ~falla =>
                 /\ Len(alumnos') = Len(alumnos)
                 /\ \A i \in DOMAIN alumnos :
                      IF alumnos[i].dni # d
                      THEN alumnos'[i] = alumnos[i]
                      ELSE /\ alumnos'[i].dni = d
                           /\ alumnos'[i].nombre = alumnos[i].nombre
                           /\ alumnos'[i].edad = alumnos[i].edad
                           /\ DOMAIN alumnos'[i].notas =
                                  DOMAIN alumnos[i].notas \cup {c}
                           /\ alumnos'[i].notas[c] = llamada'.nota
                           /\ \A k \in DOMAIN alumnos[i].notas \ {c} :
                                  alumnos'[i].notas[k] = alumnos[i].notas[k]]_vars

\* a grade was overwritten for a student who has another course graded, in a
\* roster of two students
C4_Testigo ==
    /\ llamada.op = "asignar"
    /\ llamada.ret = "True"
    /\ Len(alumnos) = 2
    /\ \E a \in Valores(alumnos) :
           /\ a.dni = llamada.dni
           /\ Cardinality(DOMAIN a.notas) = 2

\* C5: guardar_json followed by cargar_json into a fresh Escuela yields the
\* same set of ids and, for each id, the same name, age and course-to-grade
\* mapping as the roster that was saved.
C5_IdaVuelta ==
    llamada.op = "cargar_otra" =>
        /\ llamada.ret = "None"
        /\ Claves(otra.alumnos) = Claves(alumnos)
        /\ otra.dni_registrados = dni_registrados
        /\ \A a \in Valores(alumnos) : \E b \in Valores(otra.alumnos) :
               /\ b.dni = a.dni
               /\ b.nombre = a.nombre
               /\ b.edad = a.edad
               /\ b.notas = a.notas

\* two students, one of them with two grades, went through the round trip
C5_Testigo ==
    /\ llamada.op = "cargar_otra"
    /\ Len(alumnos) = 2
    /\ \E a \in Valores(alumnos) : Cardinality(DOMAIN a.notas) >= 2

\* C6: cargar_json on a path that does not exist, or on a file whose content
\* cannot be parsed, leaves the roster unchanged and returns normally.
C6_CargaIgnorada ==
    [][(llamada'.op = "cargar" /\ disco.tipo \in {"ausente", "bytes", "texto"})
        => /\ alumnos' = alumnos
           /\ dni_registrados' = dni_registrados
           /\ llamada'.ret = "None"]_vars

\* the dni of the entries of a file
DniDelArchivo(f) == {f.items[i].dni : i \in DOMAIN f.items}

\* C7: cargar_json either fully succeeds (it returns, and the roster is the
\* students the file describes) or leaves the prior roster untouched.
C7_TodoONada ==
    [][llamada'.op = "cargar" =>
        \/ /\ alumnos' = alumnos
           /\ dni_registrados' = dni_registrados
        \/ /\ llamada'.ret = "None"
           /\ Claves(alumnos') = DniDelArchivo(disco)]_vars

RECURSIVE FilasEsperadas(_, _)
\* the number of data rows: the sum over the students from i on of
\* max(1, number of grades)
FilasEsperadas(al, i) ==
    IF i > Len(al) THEN 0
    ELSE (IF DOMAIN al[i].notas = {} THEN 1
          ELSE Cardinality(DOMAIN al[i].notas))
         + FilasEsperadas(al, i + 1)

\* C8: exportar_csv completes and writes, after the header, one row per
\* (course, grade) pair of each student with grades, and one row with empty
\* course and grade and average 0.00 for each student without grades.
C8_Exportar ==
    llamada.op = "exportar" =>
        /\ llamada.ret = "None"
        /\ llamada.salida[1] = Cabecera
        /\ Len(llamada.salida) = 1 + FilasEsperadas(alumnos, 1)
        /\ \A a \in Valores(alumnos) :
               IF DOMAIN a.notas = {}
               THEN \E j \in 2..Len(llamada.salida) :
                        llamada.salida[j] =
                            <<a.dni, a.nombre, ToString(a.edad), "", "", "0.00">>
               ELSE \A c \in DOMAIN a.notas :
                        \E j \in 2..Len(llamada.salida) :
                            /\ llamada.salida[j][1] = a.dni
                            /\ llamada.salida[j][4] = c

\* C9: every student's grade mapping has only keys of the three-course
\* catalog.
C9_NotasDelCatalogo ==
    \A a \in Valores(alumnos) : DOMAIN a.notas \subseteq TresCursos

\* the grade of course c, 0 when it has none
NotaDe(notas, c) == IF c \in DOMAIN notas THEN notas[c] ELSE 0

\* C10: promedio() is the arithmetic mean of the current grades, 0.0 when
\* there are none, and aprobado() is true iff that mean is at least 11.0.
C10_Promedio ==
    \A a \in Valores(alumnos) :
        LET n == Cardinality(DOMAIN a.notas)
            suma == NotaDe(a.notas, "Matematica") + NotaDe(a.notas, "Lenguaje")
                    + NotaDe(a.notas, "Ciencia")
            p == promedio(a.notas)
        IN  /\ p.den > 0
            /\ n = 0 => p.num = 0 /\ ~aprobado(a.notas)
            /\ n > 0 => p.num * n = suma * p.den
            /\ n > 0 => (aprobado(a.notas) <=> suma >= 11 * n)

\* a student with two different grades that average exactly 11.0, who passes
C10_Testigo ==
    /\ llamada.op = "asignar"
    /\ llamada.ret = "True"
    /\ \E a \in Valores(alumnos) :
           /\ DOMAIN a.notas = {"Matematica", "Ciencia"}
           /\ a.notas["Matematica"] + a.notas["Ciencia"] = 22
           /\ a.notas["Matematica"] # a.notas["Ciencia"]
           /\ aprobado(a.notas)

====
